---- MODULE Spec2Model ----
(***************************************************************************)
(* A model of the LinkedIn profile analyzer: the App and ResumeCreator     *)
(* components with their calls to the Gemini service, and the four text    *)
(* converters (parseLine, SummaryRenderer, parseResumeMarkdown and the     *)
(* replacements of handlePrint).                                           *)
(*                                                                         *)
(* A JavaScript string is a sequence of one-character strings, so that     *)
(* trim, split, replace, slice and the regular expressions are computed    *)
(* character by character as the engine computes them.                     *)
(***************************************************************************)
EXTENDS Integers, Sequences, FiniteSets, TLC

VARIABLES
    \* App (src/unnamed/part_001)
    profileText, summary, isLoading, error, view,
    \* ResumeCreator (src/components/ResumeCreator.tsx); rc = the mounted instance
    resume, rcIsLoading, rcError,
    \* geminiService: process.env.API_KEY and the calls awaiting their outcome
    apiKey, calls,
    \* parseLine: its argument and the spans it returns
    line, tokens, parts,
    \* SummaryRenderer: its text prop and the elements it builds
    text, elements,
    \* ResumeRenderer: its markdownText prop and the memoised resumeData
    markdownText, resumeData,
    \* handlePrint: what it has written into the body of the print window
    printDocument

uiVars == <<profileText, summary, isLoading, error, view, resume, rcIsLoading,
            rcError, apiKey, calls>>
lineVars == <<line, tokens, parts>>
summaryVars == <<text, elements>>
resumeVars == <<markdownText, resumeData>>
printVars == <<printDocument>>
vars == <<uiVars, lineVars, summaryVars, resumeVars, printVars>>

-----------------------------------------------------------------------------
(* Strings *)

\* JavaScript null where a string may stand.
Null == <<"null">>

\* White space as String.prototype.trim and \s see it.
WhiteSpace == {" ", "\n", "\t", "\r"}

\* The character U+0060 (a string literal of the module cannot hold it).
Backtick == "backtick"

Min(S) == CHOOSE x \in S : \A y \in S : x <= y

Max(S) == CHOOSE x \in S : \A y \in S : x >= y

\* s.substring(from - 1, to) on 1-based inclusive bounds; empty when from > to.
Sub(s, from, to) ==
    IF from > to \/ from > Len(s) THEN <<>>
    ELSE SubSeq(s, from, IF to > Len(s) THEN Len(s) ELSE to)

StartsWith(s, p) == Len(s) >= Len(p) /\ SubSeq(s, 1, Len(p)) = p

EndsWith(s, p) == Len(s) >= Len(p) /\ SubSeq(s, Len(s) - Len(p) + 1, Len(s)) = p

\* The first index >= from at which p occurs in s, 0 when there is none.
IndexOf(s, p, from) ==
    LET hits == {i \in from..(Len(s) - Len(p) + 1) : SubSeq(s, i, i + Len(p) - 1) = p}
    IN  IF hits = {} THEN 0 ELSE Min(hits)

\* The last index >= from at which p occurs in s, 0 when there is none.
LastIndexOf(s, p, from) ==
    LET hits == {i \in from..(Len(s) - Len(p) + 1) : SubSeq(s, i, i + Len(p) - 1) = p}
    IN  IF hits = {} THEN 0 ELSE Max(hits)

\* s.trim()
Trim(s) ==
    LET keep == {i \in 1..Len(s) : s[i] \notin WhiteSpace}
    IN  IF keep = {} THEN <<>> ELSE SubSeq(s, Min(keep), Max(keep))

\* s.replace(p, r) with a string pattern: the first occurrence only, wherever it is.
ReplaceFirst(s, p, r) ==
    LET i == IndexOf(s, p, 1)
    IN  IF i = 0 THEN s
        ELSE Sub(s, 1, i - 1) \o r \o Sub(s, i + Len(p), Len(s))

\* s.replace(/^p/, r): the pattern anchored at the start.
ReplaceLeading(s, p, r) ==
    IF StartsWith(s, p) THEN r \o Sub(s, Len(p) + 1, Len(s)) ELSE s

\* s.split(c) for a one-character separator: "" gives [""].
RECURSIVE SplitOn(_, _)
SplitOn(s, c) ==
    LET i == IndexOf(s, <<c>>, 1)
    IN  IF i = 0 THEN <<s>>
        ELSE <<Sub(s, 1, i - 1)>> \o SplitOn(Sub(s, i + 1, Len(s)), c)

\* lines.join(sep)
RECURSIVE Join(_, _)
Join(ls, sep) ==
    IF ls = <<>> THEN <<>>
    ELSE IF Len(ls) = 1 THEN ls[1]
    ELSE ls[1] \o sep \o Join(Tail(ls), sep)

\* lines.filter(line => line.trim() !== '')
RECURSIVE NonBlank(_)
NonBlank(ls) ==
    IF ls = <<>> THEN <<>>
    ELSE (IF Trim(ls[1]) # <<>> THEN <<ls[1]>> ELSE <<>>) \o NonBlank(Tail(ls))

-----------------------------------------------------------------------------
(* parseLine (SummaryDisplay): the inline span tokenizer *)

\* \*\*(?:[^*]+?|\*[^*])*?\*\* from the content position p on: the index of the
\* closing pair's second asterisk, 0 when the pattern fails. The lazy group moves one
\* character on a non-asterisk and two on an asterisk followed by a non-asterisk, and
\* the closing pair is tried first at every position.
RECURSIVE BoldScan(_, _)
BoldScan(s, p) ==
    IF p + 1 <= Len(s) /\ s[p] = "*" /\ s[p + 1] = "*" THEN p + 1
    ELSE IF p <= Len(s) /\ s[p] # "*" THEN BoldScan(s, p + 1)
    ELSE IF p + 1 <= Len(s) /\ s[p] = "*" /\ s[p + 1] # "*" THEN BoldScan(s, p + 2)
    ELSE 0

BoldEnd(s, i) ==
    IF i + 1 <= Len(s) /\ s[i] = "*" /\ s[i + 1] = "*" THEN BoldScan(s, i + 2) ELSE 0

\* The inline-code alternative: a backtick, one or more characters other than a
\* backtick, a backtick.
CodeEnd(s, i) ==
    IF s[i] = Backtick /\ i + 1 <= Len(s) /\ s[i + 1] # Backtick
    THEN IndexOf(s, <<Backtick>>, i + 2)
    ELSE 0

\* \[(?:[^\]]+?)\]\((?:[^)]+?)\) : a label without "]", a url without ")", neither empty.
LinkEnd(s, i) ==
    IF s[i] # "[" THEN 0
    ELSE LET k == IndexOf(s, <<"]">>, i + 1)
         IN  IF k > i + 1 /\ k + 2 <= Len(s) /\ s[k + 1] = "(" /\ s[k + 2] # ")"
             THEN IndexOf(s, <<")">>, k + 3)
             ELSE 0

\* The combined pattern tried at index i: the alternatives in their written order.
MatchEnd(s, i) ==
    IF BoldEnd(s, i) # 0 THEN BoldEnd(s, i)
    ELSE IF CodeEnd(s, i) # 0 THEN CodeEnd(s, i)
    ELSE LinkEnd(s, i)

\* line.split(regex) with the one capturing group: text, match, text, ..., text.
\* i is the index the engine tries next, start the first index of the pending text.
RECURSIVE SplitByRegex(_, _, _)
SplitByRegex(s, i, start) ==
    IF i > Len(s) THEN <<Sub(s, start, Len(s))>>
    ELSE LET e == MatchEnd(s, i)
         IN  IF e = 0 THEN SplitByRegex(s, i + 1, start)
             ELSE <<Sub(s, start, i - 1), Sub(s, i, e)>> \o SplitByRegex(s, e + 1, e + 1)

Span(tag, children, href) == [tag |-> tag, children |-> children, href |-> href]

\* part.match(/\[(.*?)\]\((.*?)\)/): the leftmost "[" followed by a "](" and later a
\* ")"; both groups lazy. <<>> when there is no match, else <<label, url>>.
LinkMatch(part) ==
    LET opens == {a \in 1..Len(part) :
                    /\ part[a] = "["
                    /\ LET k == IndexOf(part, <<"]", "(">>, a + 1)
                       IN  k # 0 /\ IndexOf(part, <<")">>, k + 2) # 0}
    IN  IF opens = {} THEN <<>>
        ELSE LET a == Min(opens)
                 k == IndexOf(part, <<"]", "(">>, a + 1)
                 m == IndexOf(part, <<")">>, k + 2)
             IN  <<Sub(part, a + 1, k - 1), Sub(part, k + 2, m - 1)>>

\* RenderPart without its link branch: a link part is rendered as plain text.
RenderPartWithoutLinks(part) ==
    IF part = <<>> THEN <<>>
    ELSE IF StartsWith(part, <<"*", "*">>) /\ EndsWith(part, <<"*", "*">>)
        THEN <<Span("strong", Sub(part, 3, Len(part) - 2), Null)>>
    ELSE IF StartsWith(part, <<Backtick>>) /\ EndsWith(part, <<Backtick>>)
        THEN <<Span("code", Sub(part, 2, Len(part) - 1), Null)>>
    ELSE <<Span("span", part, Null)>>

\* The callback of parts.map: <<>> for a part that renders nothing, else <<span>>.
RenderPart(part) ==
    IF part = <<>> THEN <<>>
    ELSE IF StartsWith(part, <<"*", "*">>) /\ EndsWith(part, <<"*", "*">>)
        THEN <<Span("strong", Sub(part, 3, Len(part) - 2), Null)>>
    ELSE IF StartsWith(part, <<Backtick>>) /\ EndsWith(part, <<Backtick>>)
        THEN <<Span("code", Sub(part, 2, Len(part) - 1), Null)>>
    ELSE IF StartsWith(part, <<"[">>) /\ EndsWith(part, <<")">>) /\ LinkMatch(part) # <<>>
        THEN <<Span("a", LinkMatch(part)[1], LinkMatch(part)[2])>>
    ELSE <<Span("span", part, Null)>>

RECURSIVE RenderParts(_)
RenderParts(ps) ==
    IF ps = <<>> THEN <<>> ELSE RenderPart(ps[1]) \o RenderParts(Tail(ps))

parseLine(s) == RenderParts(SplitByRegex(s, 1, 1))

-----------------------------------------------------------------------------
(* SummaryRenderer (SummaryDisplay): the block parser of the analysis text *)

\* flushList: the pending list items become one ul element, if there are any.
flushList(els, listItems) ==
    IF Len(listItems) > 0
    THEN Append(els, [tag |-> "ul", key |-> Len(els), children |-> listItems])
    ELSE els

\* SummaryLine without the flushList of its last branch: a blank line leaves the
\* pending list open.
SummaryLineBlankKeepsList(st, rawLine, index) ==
    LET trimmedLine == Trim(rawLine)
    IN  IF StartsWith(trimmedLine, <<"#", "#", "#", " ">>)
        THEN [els |-> Append(flushList(st.els, st.listItems),
                        [tag |-> "h3", key |-> index,
                         children |-> parseLine(ReplaceFirst(trimmedLine,
                                                    <<"#", "#", "#", " ">>, <<>>))]),
              listItems |-> <<>>]
        ELSE IF StartsWith(trimmedLine, <<"*", " ">>)
        THEN [els |-> st.els,
              listItems |-> Append(st.listItems,
                        [key |-> index,
                         children |-> parseLine(Sub(trimmedLine, 3, Len(trimmedLine)))])]
        ELSE IF trimmedLine # <<>>
        THEN [els |-> Append(flushList(st.els, st.listItems),
                        [tag |-> "p", key |-> index, children |-> parseLine(trimmedLine)]),
              listItems |-> <<>>]
        ELSE st

\* The body of lines.forEach for the line at 0-based index; st = [els, listItems].
SummaryLine(st, rawLine, index) ==
    LET trimmedLine == Trim(rawLine)
    IN  IF StartsWith(trimmedLine, <<"#", "#", "#", " ">>)
        THEN [els |-> Append(flushList(st.els, st.listItems),
                        [tag |-> "h3", key |-> index,
                         children |-> parseLine(ReplaceFirst(trimmedLine,
                                                    <<"#", "#", "#", " ">>, <<>>))]),
              listItems |-> <<>>]
        ELSE IF StartsWith(trimmedLine, <<"*", " ">>)
        THEN [els |-> st.els,
              listItems |-> Append(st.listItems,
                        [key |-> index,
                         children |-> parseLine(Sub(trimmedLine, 3, Len(trimmedLine)))])]
        ELSE IF trimmedLine # <<>>
        THEN [els |-> Append(flushList(st.els, st.listItems),
                        [tag |-> "p", key |-> index, children |-> parseLine(trimmedLine)]),
              listItems |-> <<>>]
        ELSE [els |-> flushList(st.els, st.listItems), listItems |-> <<>>]

RECURSIVE SummaryLines(_, _, _)
SummaryLines(st, ls, i) ==
    IF i > Len(ls) THEN st ELSE SummaryLines(SummaryLine(st, ls[i], i - 1), ls, i + 1)

\* The elements SummaryRenderer builds for its text prop.
SummaryRenderer(t) ==
    LET st == SummaryLines([els |-> <<>>, listItems |-> <<>>], SplitOn(t, "\n"), 1)
    IN  flushList(st.els, st.listItems)

-----------------------------------------------------------------------------
(* parseResumeMarkdown (ResumeCreator) *)

WorkExperience ==
    <<"W", "o", "r", "k", " ", "E", "x", "p", "e", "r", "i", "e", "n", "c", "e">>

Skills == <<"S", "k", "i", "l", "l", "s">>

\* trimmed.split(/\s*\|\s*/): the white space around each pipe belongs to the
\* separator, so every piece between two pipes comes out trimmed.
RECURSIVE TrimAll(_)
TrimAll(ps) == IF ps = <<>> THEN <<>> ELSE <<Trim(ps[1])>> \o TrimAll(Tail(ps))

SplitContact(secondLine) == TrimAll(SplitOn(Trim(secondLine), "|"))

\* CollectSections with every content line pushed to the first section in place of
\* the section opened last.
RECURSIVE CollectSectionsIntoFirst(_, _, _)
CollectSectionsIntoFirst(ls, secs, cur) ==
    IF ls = <<>> THEN secs
    ELSE IF StartsWith(ls[1], <<"#", "#", " ">>)
        THEN CollectSectionsIntoFirst(Tail(ls),
                Append(secs, [title |-> Trim(ReplaceFirst(ls[1], <<"#", "#", " ">>, <<>>)),
                              content |-> <<>>]),
                Len(secs) + 1)
    ELSE IF cur # 0
        THEN CollectSectionsIntoFirst(Tail(ls),
                [secs EXCEPT ![1].content = Append(@, ls[1])], cur)
    ELSE CollectSectionsIntoFirst(Tail(ls), secs, cur)

\* The for loop over the remaining lines; cur = 0 while currentSection is null, else
\* the index in secs of the section that currentSection refers to.
RECURSIVE CollectSections(_, _, _)
CollectSections(ls, secs, cur) ==
    IF ls = <<>> THEN secs
    ELSE IF StartsWith(ls[1], <<"#", "#", " ">>)
        THEN CollectSections(Tail(ls),
                Append(secs, [title |-> Trim(ReplaceFirst(ls[1], <<"#", "#", " ">>, <<>>)),
                              content |-> <<>>]),
                Len(secs) + 1)
    ELSE IF cur # 0
        THEN CollectSections(Tail(ls),
                [secs EXCEPT ![cur].content = Append(@, ls[1])], cur)
    ELSE CollectSections(Tail(ls), secs, cur)

\* line.match(/^\*\*(.*)\*\* \| (.*)/): <<>> or <<group 1, group 2>>; (.*) is greedy,
\* so group 1 runs to the last "** | " of the line.
titleCompanyMatch(l) ==
    LET k == IF StartsWith(l, <<"*", "*">>)
             THEN LastIndexOf(l, <<"*", "*", " ", "|", " ">>, 3)
             ELSE 0
    IN  IF k = 0 THEN <<>> ELSE <<Sub(l, 3, k - 1), Sub(l, k + 5, Len(l))>>

\* line.match(/^\*(.*)\*/): <<>> or <<group 1>>, group 1 running to the last asterisk.
dateMatch(l) ==
    LET k == IF StartsWith(l, <<"*">>) THEN LastIndexOf(l, <<"*">>, 2) ELSE 0
    IN  IF k = 0 THEN <<>> ELSE <<Sub(l, 2, k - 1)>>

\* line.match(/^\* (.*)/)
bulletMatch(l) ==
    IF StartsWith(l, <<"*", " ">>) THEN <<Sub(l, 3, Len(l))>> ELSE <<>>

\* CollectJobs without the push after the loop: the last job is lost.
RECURSIVE CollectJobsWithoutLastPush(_, _, _)
CollectJobsWithoutLastPush(ls, jobs, job) ==
    IF ls = <<>> THEN jobs
    ELSE IF titleCompanyMatch(ls[1]) # <<>>
        THEN CollectJobsWithoutLastPush(Tail(ls), jobs \o job,
                <<[title |-> Trim(titleCompanyMatch(ls[1])[1]),
                   company |-> Trim(titleCompanyMatch(ls[1])[2]),
                   date |-> <<>>,
                   description |-> <<>>]>>)
    ELSE IF job # <<>> /\ dateMatch(ls[1]) # <<>>
        THEN CollectJobsWithoutLastPush(Tail(ls), jobs,
                <<[job[1] EXCEPT !.date = Trim(dateMatch(ls[1])[1])]>>)
    ELSE IF job # <<>> /\ bulletMatch(ls[1]) # <<>>
        THEN CollectJobsWithoutLastPush(Tail(ls), jobs,
                <<[job[1] EXCEPT !.description = Append(@, Trim(bulletMatch(ls[1])[1]))]>>)
    ELSE CollectJobsWithoutLastPush(Tail(ls), jobs, job)

\* The for loop over a Work Experience section's content; job = <<>> while
\* currentJob is null, else <<currentJob>>. The final push is part of it.
RECURSIVE CollectJobs(_, _, _)
CollectJobs(ls, jobs, job) ==
    IF ls = <<>> THEN jobs \o job
    ELSE IF titleCompanyMatch(ls[1]) # <<>>
        THEN CollectJobs(Tail(ls), jobs \o job,
                <<[title |-> Trim(titleCompanyMatch(ls[1])[1]),
                   company |-> Trim(titleCompanyMatch(ls[1])[2]),
                   date |-> <<>>,
                   description |-> <<>>]>>)
    ELSE IF job # <<>> /\ dateMatch(ls[1]) # <<>>
        THEN CollectJobs(Tail(ls), jobs,
                <<[job[1] EXCEPT !.date = Trim(dateMatch(ls[1])[1])]>>)
    ELSE IF job # <<>> /\ bulletMatch(ls[1]) # <<>>
        THEN CollectJobs(Tail(ls), jobs,
                <<[job[1] EXCEPT !.description = Append(@, Trim(bulletMatch(ls[1])[1]))]>>)
    ELSE CollectJobs(Tail(ls), jobs, job)

\* line.match(/^\* \*\*(.*):\*\* (.*)/): <<>> or <<group 1, group 2>>.
skillMatch(l) ==
    LET k == IF StartsWith(l, <<"*", " ", "*", "*">>)
             THEN LastIndexOf(l, <<":", "*", "*", " ">>, 5)
             ELSE 0
    IN  IF k = 0 THEN <<>> ELSE <<Sub(l, 5, k - 1), Sub(l, k + 4, Len(l))>>

\* SkillLine without the replace of its last line: the bullet marker stays.
SkillLineKeepsMarker(l) ==
    IF skillMatch(l) # <<>>
    THEN [category |-> Trim(skillMatch(l)[1]), items |-> Trim(skillMatch(l)[2])]
    ELSE [category |-> Null, items |-> Trim(l)]

\* The callback of section.content.map in a Skills section.
SkillLine(l) ==
    IF skillMatch(l) # <<>>
    THEN [category |-> Trim(skillMatch(l)[1]), items |-> Trim(skillMatch(l)[2])]
    ELSE [category |-> Null, items |-> Trim(ReplaceLeading(l, <<"*", " ">>, <<>>))]

RECURSIVE SkillLines(_)
SkillLines(ls) == IF ls = <<>> THEN <<>> ELSE <<SkillLine(ls[1])>> \o SkillLines(Tail(ls))

\* The callback of sections.map.
ProcessSection(section) ==
    IF section.title = WorkExperience
    THEN [title |-> section.title, content |-> section.content,
          jobs |-> CollectJobs(section.content, <<>>, <<>>)]
    ELSE IF section.title = Skills
    THEN [title |-> section.title, content |-> section.content,
          skills |-> SkillLines(section.content)]
    ELSE [title |-> section.title, content |-> Join(section.content, <<"\n">>)]

RECURSIVE ProcessSections(_)
ProcessSections(secs) ==
    IF secs = <<>> THEN <<>>
    ELSE <<ProcessSection(secs[1])>> \o ProcessSections(Tail(secs))

\* The lines kept by text.trim().split('\n').filter(...).
ResumeLines(t) == NonBlank(SplitOn(Trim(t), "\n"))

\* MinLines off by one: lines.length <= 2 in place of lines.length < 2.
MinLinesOffByOne == 2 + 1

\* The least number of lines parseResumeMarkdown accepts.
MinLines == 2

\* parseResumeMarkdown: <<>> for null, else <<the document>>.
parseResumeMarkdown(t) ==
    IF t = <<>> THEN <<>>
    ELSE LET lines == ResumeLines(t)
         IN  IF Len(lines) < MinLines THEN <<>>
             ELSE <<[header |-> [name |-> Trim(ReplaceFirst(lines[1], <<"#", " ">>, <<>>)),
                                 contact |-> SplitContact(lines[2])],
                     sections |-> ProcessSections(
                                    CollectSections(Sub(lines, 3, Len(lines)), <<>>, 0))]>>

-----------------------------------------------------------------------------
(* handlePrint (ResumeCreator): the markdown to HTML conversion for printing *)
(*                                                                         *)
(* In the converted text an element is a character of the markdown or a    *)
(* piece of HTML that a replacement has written, kept whole: no pattern of *)
(* the chain matches a part of such a piece.                               *)

\* The opening of the job header, up to where the last replacement looks for it.
JobHeaderOpen == "<div class=\"job-header\""

\* .replace(/^# (.*$)/m, '<h1>$1</h1>') on the lines of the text: without the g
\* flag only the first matching line is replaced.
RECURSIVE ReplaceH1(_)
ReplaceH1(ls) ==
    IF ls = <<>> THEN <<>>
    ELSE IF StartsWith(ls[1], <<"#", " ">>)
        THEN <<<<"<h1>">> \o Sub(ls[1], 3, Len(ls[1])) \o <<"</h1>">>>> \o Tail(ls)
    ELSE <<ls[1]>> \o ReplaceH1(Tail(ls))

\* .replace(/^(.* \| .*)$/m, '<div class="contact">$1</div>'): the first line that
\* holds " | ".
RECURSIVE ReplaceContact(_)
ReplaceContact(ls) ==
    IF ls = <<>> THEN <<>>
    ELSE IF IndexOf(ls[1], <<" ", "|", " ">>, 1) # 0
        THEN <<<<"<div class=\"contact\">">> \o ls[1] \o <<"</div>">>>> \o Tail(ls)
    ELSE <<ls[1]>> \o ReplaceContact(Tail(ls))

\* .replace(/^## (.*$)/m, '<h2>$1</h2>'): the first line that starts with "## ".
RECURSIVE ReplaceH2(_)
ReplaceH2(ls) ==
    IF ls = <<>> THEN <<>>
    ELSE IF StartsWith(ls[1], <<"#", "#", " ">>)
        THEN <<<<"<h2>">> \o Sub(ls[1], 4, Len(ls[1])) \o <<"</h2>">>>> \o Tail(ls)
    ELSE <<ls[1]>> \o ReplaceH2(Tail(ls))

\* .replace(/^\*\*(.*)\*\* \| (.*$)\n^\*(.*)\*/gm, ...): every line of the job form
\* whose next line starts with an asterisk and holds another one; the match takes
\* the newline and the next line up to its last asterisk, the rest of that line
\* stays, and the search goes on after it.
RECURSIVE ReplaceJobHeaders(_)
ReplaceJobHeaders(ls) ==
    IF ls = <<>> THEN <<>>
    ELSE IF /\ Len(ls) > 1
            /\ titleCompanyMatch(ls[1]) # <<>>
            /\ dateMatch(ls[2]) # <<>>
        THEN <<<<JobHeaderOpen, "><h3><strong>">> \o titleCompanyMatch(ls[1])[1]
                \o <<"</strong> | ">> \o titleCompanyMatch(ls[1])[2]
                \o <<"</h3><em>">> \o dateMatch(ls[2])[1] \o <<"</em></div><ul>">>
                \o Sub(ls[2], LastIndexOf(ls[2], <<"*">>, 2) + 1, Len(ls[2]))>>
             \o ReplaceJobHeaders(Sub(ls, 3, Len(ls)))
    ELSE <<ls[1]>> \o ReplaceJobHeaders(Tail(ls))

\* .replace(/^\* \*\*(.*):\*\* (.*$)/gm, ...): every line of the skill form.
RECURSIVE ReplaceSkills(_)
ReplaceSkills(ls) ==
    IF ls = <<>> THEN <<>>
    ELSE <<IF skillMatch(ls[1]) # <<>>
           THEN <<"<div class=\"skills-grid\"><strong>">> \o skillMatch(ls[1])[1]
                    \o <<":</strong><span>">> \o skillMatch(ls[1])[2]
                    \o <<"</span></div>">>
           ELSE ls[1]>> \o ReplaceSkills(Tail(ls))

\* .replace(/^\* (.*$)/gm, '<li>$1</li>'): every line that starts with "* ".
RECURSIVE ReplaceBullets(_)
ReplaceBullets(ls) ==
    IF ls = <<>> THEN <<>>
    ELSE <<IF bulletMatch(ls[1]) # <<>>
           THEN <<"<li>">> \o bulletMatch(ls[1])[1] \o <<"</li>">>
           ELSE ls[1]>> \o ReplaceBullets(Tail(ls))

\* The first index > i of s that holds no white space, Len(s) + 1 when none does.
SkipSpace(s, i) ==
    Min({j \in (i + 1)..(Len(s) + 1) : j = Len(s) + 1 \/ s[j] \notin WhiteSpace})

\* .replace(/<\/ul>\s*<div class="job-header"/g, '</ul><div class="job-header"'):
\* the white space between a closed list and a job header is removed.
RECURSIVE FixSpacing(_)
FixSpacing(s) ==
    IF s = <<>> THEN <<>>
    ELSE IF /\ s[1] = "</ul>"
            /\ SkipSpace(s, 1) <= Len(s)
            /\ s[SkipSpace(s, 1)] = JobHeaderOpen
        THEN <<"</ul>", JobHeaderOpen>> \o FixSpacing(Sub(s, SkipSpace(s, 1) + 1, Len(s)))
    ELSE <<s[1]>> \o FixSpacing(Tail(s))

\* The chain of replacements that gives htmlResume from the resume.
htmlResume(r) ==
    FixSpacing(Join(ReplaceBullets(ReplaceSkills(ReplaceJobHeaders(
        ReplaceH2(ReplaceContact(ReplaceH1(SplitOn(r, "\n"))))))), <<"\n">>))

-----------------------------------------------------------------------------
(* geminiService: callGemini and the calls awaiting their outcome *)

\* Who awaits a call: the App, the mounted ResumeCreator, or a ResumeCreator that
\* was unmounted while its call was pending (its state setters then do nothing).
Callers == {"app", "rc", "gone"}

\* Where a pending call stands: "rejected" when callGemini threw on the missing
\* API_KEY before it built a client (no request was made; the awaiting handler resumes
\* in a microtask), "sent" when generateContent was called and has not answered.
Stages == {"rejected", "sent"}

\* The most calls pending at once that the model follows.
MaxCalls == 3

ApiKeyMessage == "API_KEY environment variable is not set."

NoResponseMessage == "Could not get a response from the AI model."

\* response.text: the texts the model may answer with, the empty text among them.
Responses == {<<>>, <<"#", " ", "N">>}

\* callGemini without its check of the API key: the request is always made.
callGeminiWithoutKeyCheck(key) == "sent"

\* callGemini up to its await: the stage the new call is in.
callGemini(key) == IF key THEN "sent" ELSE "rejected"

Pending(c, who) == c[<<who, "rejected">>] + c[<<who, "sent">>]

Requests(c) == c[<<"app", "sent">>] + c[<<"rc", "sent">>] + c[<<"gone", "sent">>]

TotalCalls(c) == Pending(c, "app") + Pending(c, "rc") + Pending(c, "gone")

\* A rejected promise resumes its handler in a microtask, before any later event.
MicrotaskQueued ==
    calls[<<"app", "rejected">>] + calls[<<"rc", "rejected">>]
        + calls[<<"gone", "rejected">>] > 0

\* What the calls can settle with: the stage decides whether it can succeed.
Outcomes(stage) ==
    IF stage = "rejected" THEN {[ok |-> FALSE, value |-> ApiKeyMessage]}
    ELSE {[ok |-> TRUE, value |-> r] : r \in Responses}
            \cup {[ok |-> FALSE, value |-> NoResponseMessage]}

-----------------------------------------------------------------------------
(* App and ResumeCreator *)
(*                                                                         *)
(* An action is one run of a handler between two awaits: the state changes *)
(* it makes are rendered together. A handler that awaits a call is two     *)
(* actions, the part up to the await and the part from it on.              *)

\* The texts typed into the textarea: empty, blank, and a profile.
ProfileTexts == {<<>>, <<" ">>, <<"p">>}

PleasePaste == <<"Please paste your LinkedIn profile text.">>

\* A value is truthy in a JSX condition: neither null nor the empty string.
Truthy(v) == v # Null /\ v # <<>>

\* {view === 'resume' && summary && <ResumeCreator .../>}
Mounted(v, s) == v = "resume" /\ Truthy(s)

\* The calls after the mounted ResumeCreator is unmounted: its pending calls stay
\* pending and no longer have a component to report to.
Orphaned(c) ==
    [k \in Callers \X Stages |->
        IF k[1] = "rc" THEN 0
        ELSE IF k[1] = "gone" THEN c[k] + c[<<"rc", k[2]>>]
        ELSE c[k]]

\* The ResumeCreator's state and the calls after a step that leaves the App with
\* view v and summary s and the calls c: a newly rendered ResumeCreator starts from
\* its useState defaults, one no longer rendered is unmounted.
Rerender(v, s, c) ==
    IF Mounted(view, summary) /\ Mounted(v, s)
    THEN /\ UNCHANGED <<resume, rcIsLoading, rcError>>
         /\ calls' = c
    ELSE /\ resume' = Null
         /\ rcIsLoading' = FALSE
         /\ rcError' = Null
         /\ calls' = IF Mounted(view, summary) THEN Orphaned(c) ELSE c

AppInit ==
    /\ profileText = <<>>
    /\ summary = Null
    /\ isLoading = FALSE
    /\ error = Null
    /\ view = "form"
    /\ resume = Null
    /\ rcIsLoading = FALSE
    /\ rcError = Null
    /\ calls = [k \in Callers \X Stages |-> 0]

\* onChange of the textarea, rendered in the form view and disabled while loading.
SetProfileText ==
    /\ view = "form" /\ ~isLoading /\ ~MicrotaskQueued
    /\ \E t \in ProfileTexts : profileText' = t
    /\ UNCHANGED <<summary, isLoading, error, view, resume, rcIsLoading, rcError,
                   apiKey, calls>>

\* The Analyze button is rendered in the form view.
AnalyzeEnabled == view = "form" /\ ~(isLoading \/ Trim(profileText) = <<>>)

\* handleAnalyze without its setError(null): the message of an earlier failure stays.
handleAnalyzeKeepsError ==
    /\ AnalyzeEnabled /\ ~MicrotaskQueued
    /\ TotalCalls(calls) < MaxCalls
    /\ IF Trim(profileText) = <<>>
       THEN /\ error' = PleasePaste
            /\ UNCHANGED <<summary, isLoading, view, resume, rcIsLoading, rcError, calls>>
       ELSE /\ isLoading' = TRUE
            /\ summary' = Null
            /\ error' = error
            /\ view' = "form"
            /\ Rerender("form", Null,
                 [calls EXCEPT ![<<"app", callGemini(apiKey)>>] = @ + 1])
    /\ UNCHANGED <<profileText, apiKey>>

\* handleAnalyze up to its await.
handleAnalyze ==
    /\ AnalyzeEnabled /\ ~MicrotaskQueued
    /\ TotalCalls(calls) < MaxCalls
    /\ IF Trim(profileText) = <<>>
       THEN /\ error' = PleasePaste
            /\ UNCHANGED <<summary, isLoading, view, resume, rcIsLoading, rcError, calls>>
       ELSE /\ isLoading' = TRUE
            /\ summary' = Null
            /\ error' = Null
            /\ view' = "form"
            /\ Rerender("form", Null,
                 [calls EXCEPT ![<<"app", callGemini(apiKey)>>] = @ + 1])
    /\ UNCHANGED <<profileText, apiKey>>

\* handleAnalyze from its await on: try, catch and finally.
AnalyzeSettled ==
    \E stage \in Stages : \E o \in Outcomes(stage) :
        /\ calls[<<"app", stage>>] > 0
        /\ stage = "sent" => ~MicrotaskQueued
        /\ IF o.ok
           THEN /\ summary' = o.value
                /\ view' = "summary"
                /\ error' = error
           ELSE /\ error' = <<"Failed to generate summary. ", o.value>>
                /\ UNCHANGED <<summary, view>>
        /\ isLoading' = FALSE
        /\ Rerender(view', summary', [calls EXCEPT ![<<"app", stage>>] = @ - 1])
        /\ UNCHANGED <<profileText, apiKey>>

\* handleReset without its setSummary(null): the summary outlives Start Over.
handleResetKeepsSummary ==
    /\ view # "form" /\ ~isLoading /\ ~MicrotaskQueued
    /\ profileText' = <<>>
    /\ summary' = summary
    /\ error' = Null
    /\ view' = "form"
    /\ Rerender("form", summary, calls)
    /\ UNCHANGED <<isLoading, apiKey>>

\* handleReset, the Start Over button: rendered outside the form view when the App
\* is not loading.
handleReset ==
    /\ view # "form" /\ ~isLoading /\ ~MicrotaskQueued
    /\ profileText' = <<>>
    /\ summary' = Null
    /\ error' = Null
    /\ view' = "form"
    /\ Rerender("form", Null, calls)
    /\ UNCHANGED <<isLoading, apiKey>>

\* onCraftResume, the button of the SummaryDisplay.
onCraftResume ==
    /\ view = "summary" /\ Truthy(summary) /\ ~MicrotaskQueued
    /\ view' = "resume"
    /\ Rerender("resume", summary, calls)
    /\ UNCHANGED <<profileText, summary, isLoading, error, apiKey>>

\* onBack, the Back to Analysis button of the ResumeCreator: always rendered.
onBack ==
    /\ Mounted(view, summary) /\ ~MicrotaskQueued
    /\ view' = "summary"
    /\ Rerender("summary", summary, calls)
    /\ UNCHANGED <<profileText, summary, isLoading, error, apiKey>>

\* The Generate Resume button is rendered while there is no resume and no loading.
GenerateEnabled == Mounted(view, summary) /\ ~Truthy(resume) /\ ~rcIsLoading

\* handleGenerateResume without its setError(null).
handleGenerateResumeKeepsError ==
    /\ GenerateEnabled /\ ~MicrotaskQueued
    /\ TotalCalls(calls) < MaxCalls
    /\ rcIsLoading' = TRUE
    /\ resume' = Null
    /\ calls' = [calls EXCEPT ![<<"rc", callGemini(apiKey)>>] = @ + 1]
    /\ UNCHANGED <<profileText, summary, isLoading, error, view, apiKey, rcError>>

\* handleGenerateResume up to its await.
handleGenerateResume ==
    /\ GenerateEnabled /\ ~MicrotaskQueued
    /\ TotalCalls(calls) < MaxCalls
    /\ rcIsLoading' = TRUE
    /\ rcError' = Null
    /\ resume' = Null
    /\ calls' = [calls EXCEPT ![<<"rc", callGemini(apiKey)>>] = @ + 1]
    /\ UNCHANGED <<profileText, summary, isLoading, error, view, apiKey>>

\* handleGenerateResume from its await on, in the mounted ResumeCreator.
GenerateSettled ==
    \E stage \in Stages : \E o \in Outcomes(stage) :
        /\ calls[<<"rc", stage>>] > 0
        /\ stage = "sent" => ~MicrotaskQueued
        /\ IF o.ok
           THEN resume' = o.value /\ rcError' = rcError
           ELSE rcError' = <<"Failed to generate resume. ", o.value>> /\ resume' = resume
        /\ rcIsLoading' = FALSE
        /\ calls' = [calls EXCEPT ![<<"rc", stage>>] = @ - 1]
        /\ UNCHANGED <<profileText, summary, isLoading, error, view, apiKey>>

\* The same continuation in a ResumeCreator that is no longer mounted: its
\* setResume, setError and setIsLoading change nothing that is rendered.
OrphanSettled ==
    \E stage \in Stages :
        /\ calls[<<"gone", stage>>] > 0
        /\ stage = "sent" => ~MicrotaskQueued
        /\ calls' = [calls EXCEPT ![<<"gone", stage>>] = @ - 1]
        /\ UNCHANGED <<profileText, summary, isLoading, error, view, resume,
                       rcIsLoading, rcError, apiKey>>

\* process.env.API_KEY is read anew by every call; the environment sets it.
SetApiKey ==
    /\ ~MicrotaskQueued
    /\ apiKey' = ~apiKey
    /\ UNCHANGED <<profileText, summary, isLoading, error, view, resume, rcIsLoading,
                   rcError, calls>>

Init ==
    /\ AppInit
    /\ apiKey \in BOOLEAN
    /\ line = <<>> /\ tokens = <<>> /\ parts = <<>>
    /\ text = <<>> /\ elements = <<>>
    /\ markdownText = <<>> /\ resumeData = <<>>
    /\ printDocument = <<>>

Next ==
    \/ SetProfileText /\ UNCHANGED <<lineVars, summaryVars, resumeVars, printVars>>
    \/ handleAnalyze /\ UNCHANGED <<lineVars, summaryVars, resumeVars, printVars>>
    \/ AnalyzeSettled /\ UNCHANGED <<lineVars, summaryVars, resumeVars, printVars>>
    \/ handleReset /\ UNCHANGED <<lineVars, summaryVars, resumeVars, printVars>>
    \/ onCraftResume /\ UNCHANGED <<lineVars, summaryVars, resumeVars, printVars>>
    \/ onBack /\ UNCHANGED <<lineVars, summaryVars, resumeVars, printVars>>
    \/ handleGenerateResume /\ UNCHANGED <<lineVars, summaryVars, resumeVars, printVars>>
    \/ GenerateSettled /\ UNCHANGED <<lineVars, summaryVars, resumeVars, printVars>>
    \/ OrphanSettled /\ UNCHANGED <<lineVars, summaryVars, resumeVars, printVars>>
    \/ SetApiKey /\ UNCHANGED <<lineVars, summaryVars, resumeVars, printVars>>

Spec == Init /\ [][Next]_vars

-----------------------------------------------------------------------------
(* parseLine on its own: every short line, and lines written from tokens *)

\* The longest line enumerated character by character.
MaxLineLen == 4

\* The most tokens in a line written from tokens.
MaxTokens == 2

LineAlphabet == {"*", Backtick, "[", "]", "(", ")", "a"}

Strings(alphabet, n) == UNION {[1..k -> alphabet] : k \in 0..n}

\* Text that opens no token: it holds no asterisk, backtick or opening bracket.
PlainTexts == {<<>>, <<" ", "a">>, <<")">>}

Segment(kind, a, b) == [kind |-> kind, a |-> a, b |-> b]

\* Well-formed tokens: the content is not empty and does not hold the character
\* that closes it.
WellFormedTokens ==
    {Segment("bold", c, <<>>) : c \in {<<"a">>, <<Backtick>>, <<"a", "*", "b">>}}
        \cup {Segment("code", <<c>>, <<>>) : c \in {"a", "*"}}
        \cup {Segment("link", <<c>>, <<d>>) : c \in {"["}, d \in {"a", "]"}}

\* text, token, text, ..., token, text with n tokens.
RECURSIVE TokenLines(_)
TokenLines(n) ==
    IF n = 0 THEN {<<Segment("text", t, <<>>)>> : t \in PlainTexts}
    ELSE {ts \o <<k, Segment("text", t, <<>>)>> :
            ts \in TokenLines(n - 1), k \in WellFormedTokens, t \in PlainTexts}

\* The markdown a segment is written as.
Written(seg) ==
    IF seg.kind = "bold" THEN <<"*", "*">> \o seg.a \o <<"*", "*">>
    ELSE IF seg.kind = "code" THEN <<Backtick>> \o seg.a \o <<Backtick>>
    ELSE IF seg.kind = "link" THEN <<"[">> \o seg.a \o <<"]", "(">> \o seg.b \o <<")">>
    ELSE seg.a

RECURSIVE WrittenLine(_)
WrittenLine(segs) ==
    IF segs = <<>> THEN <<>> ELSE Written(segs[1]) \o WrittenLine(Tail(segs))

LineInit ==
    /\ \/ tokens = <<>> /\ line \in Strings(LineAlphabet, MaxLineLen)
       \/ \E n \in 1..MaxTokens :
            /\ tokens \in TokenLines(n)
            /\ line = WrittenLine(tokens)
    /\ parts = <<>>
    /\ AppInit /\ apiKey = TRUE
    /\ text = <<>> /\ elements = <<>>
    /\ markdownText = <<>> /\ resumeData = <<>>
    /\ printDocument = <<>>

\* parseLine is applied to the line; parts holds <<what it returned>>.
ParseLineCall ==
    /\ parts = <<>>
    /\ parts' = <<parseLine(line)>>
    /\ UNCHANGED <<line, tokens>>

LineNext == ParseLineCall /\ UNCHANGED <<uiVars, summaryVars, resumeVars, printVars>>

SpecLine == LineInit /\ [][LineNext]_vars

-----------------------------------------------------------------------------
(* SummaryRenderer on its own *)

\* The most lines of an analysis text.
MaxSummaryLines == 4

\* The lines an analysis text is made of: blank, bullets (one indented), a heading,
\* paragraphs, and a lone asterisk with and without a space after it.
SummaryLinePool ==
    { <<>>, <<" ">>, <<"*", " ", "a">>, <<" ", "*", " ", "*", "*", "b", "*", "*">>,
      <<"#", "#", "#", " ", "h">>, <<"p">>, <<"*", " ">>, <<"*", "a">> }

SummaryTexts ==
    {Join(ls, <<"\n">>) : ls \in UNION {[1..k -> SummaryLinePool] : k \in 0..MaxSummaryLines}}

SummaryInit ==
    /\ text \in SummaryTexts
    /\ elements = <<>>
    /\ AppInit /\ apiKey = TRUE
    /\ line = <<>> /\ tokens = <<>> /\ parts = <<>>
    /\ markdownText = <<>> /\ resumeData = <<>>
    /\ printDocument = <<>>

\* The SummaryRenderer renders its text; elements holds <<what it built>>.
RenderSummary ==
    /\ elements = <<>>
    /\ elements' = <<SummaryRenderer(text)>>
    /\ UNCHANGED text

SummaryNext == RenderSummary /\ UNCHANGED <<uiVars, lineVars, resumeVars, printVars>>

SpecSummary == SummaryInit /\ [][SummaryNext]_vars

-----------------------------------------------------------------------------
(* parseResumeMarkdown on its own *)

\* The longest resume text enumerated character by character.
MaxTextLen == 6

\* The most lines after the first body line of a resume written from lines.
MaxBodyLines == 3

TextAlphabet == {"\n", " ", "#", "a"}

SkillsHeading == <<"#", "#", " ">> \o Skills

WorkHeading == <<"#", "#", " ">> \o WorkExperience

\* A heading written with white space before its marker.
IndentedHeading == <<" ">> \o SkillsHeading

\* The lines a resume body is made of: the two headings, an indented heading, a job
\* line, a date line, bullets (plain, with emphasis inside, with two spaces after the
\* marker), a skill line.
BodyLinePool ==
    { SkillsHeading, WorkHeading, IndentedHeading,
      <<"*", "*", "E", "*", "*", " ", "|", " ", "A">>,
      <<"*", "d", "*">>,
      <<"*", " ", "x">>,
      <<"*", " ", "*", "y", "*">>,
      <<"*", " ", " ", "z">>,
      <<"*", " ", "*", "*", "T", ":", "*", "*", " ", "g">> }

ResumeHead == <<"#", " ", "N", "\n", "c", " ", "|", " ", "d">>

\* The first line after the header: a heading, or a line that no section holds yet.
FirstLines == {SkillsHeading, WorkHeading, <<"*", " ", "x">>}

BodyTexts ==
    {ResumeHead \o <<"\n">> \o Join(<<h>> \o ls, <<"\n">>) :
        h \in FirstLines,
        ls \in UNION {[1..k -> BodyLinePool] : k \in 0..MaxBodyLines}}

ResumeInit ==
    /\ markdownText \in Strings(TextAlphabet, MaxTextLen) \cup BodyTexts
    /\ resumeData = <<>>
    /\ printDocument = <<>>
    /\ AppInit /\ apiKey = TRUE
    /\ line = <<>> /\ tokens = <<>> /\ parts = <<>>
    /\ text = <<>> /\ elements = <<>>

\* The ResumeRenderer's useMemo: resumeData holds <<what parseResumeMarkdown returned>>.
RenderResume ==
    /\ resumeData = <<>>
    /\ resumeData' = <<parseResumeMarkdown(markdownText)>>
    /\ UNCHANGED markdownText

ResumeNext == RenderResume /\ UNCHANGED <<uiVars, lineVars, summaryVars, printVars>>

SpecResume == ResumeInit /\ [][ResumeNext]_vars

-----------------------------------------------------------------------------
(* handlePrint on its own *)

\* A ResumeCreator that shows a resume: the App holds a summary and is in the resume
\* view, no call is pending, and the resume is one written from the line pool.
PrintInit ==
    /\ profileText = <<"p">>
    /\ summary = <<"#", " ", "N">>
    /\ isLoading = FALSE
    /\ error = Null
    /\ view = "resume"
    /\ resume \in BodyTexts
    /\ rcIsLoading = FALSE
    /\ rcError = Null
    /\ calls = [k \in Callers \X Stages |-> 0]
    /\ apiKey = TRUE
    /\ printDocument = <<>>
    /\ line = <<>> /\ tokens = <<>> /\ parts = <<>>
    /\ text = <<>> /\ elements = <<>>
    /\ markdownText = <<>> /\ resumeData = <<>>

\* onClick of the Print button, rendered while the ResumeCreator holds a resume:
\* window.open gives a window or none; printDocument holds <<what was written
\* between the body tags of the window opened last>>.
handlePrint ==
    /\ Mounted(view, summary) /\ Truthy(resume)
    /\ \E printWindow \in BOOLEAN :
        IF printWindow
        THEN printDocument' = <<htmlResume(resume)>>
        ELSE UNCHANGED printDocument

PrintNext == handlePrint /\ UNCHANGED <<uiVars, lineVars, summaryVars, resumeVars>>

SpecPrint == PrintInit /\ [][PrintNext]_vars

-----------------------------------------------------------------------------
(* Claims about parseResumeMarkdown, under SpecResume *)

\* The lines of a text that hold a character other than white space, by index.
NonBlankIndexes(t) ==
    LET ls == SplitOn(t, "\n")
    IN  {i \in 1..Len(ls) : \E j \in 1..Len(ls[i]) : ls[i][j] \notin WhiteSpace}

\* parseResumeMarkdown has run.
Parsed == Len(resumeData) = 1

\* parseResumeMarkdown has run and returned a document.
HasDocument == Parsed /\ Len(resumeData[1]) = 1

Document == resumeData[1][1]

\* C1: parseResumeMarkdown returns null exactly when its input has fewer than two
\* non-blank lines (the empty input among them), and otherwise returns a document
\* made of a header and sections, whatever the other lines hold.
C1_NullIffFewerThanTwoLines ==
    Parsed =>
        /\ Len(resumeData[1]) = 0 <=> Cardinality(NonBlankIndexes(markdownText)) < 2
        /\ Len(resumeData[1]) = 1 => DOMAIN Document = {"header", "sections"}

\* A document was returned for a text of exactly two non-blank lines among blank ones.
C1_Witness ==
    /\ HasDocument
    /\ Cardinality(NonBlankIndexes(markdownText)) = 2
    /\ Len(SplitOn(markdownText, "\n")) > 2

\* The sections of the document with the given title.
SectionsTitled(title) ==
    {i \in 1..Len(Document.sections) : Document.sections[i].title = title}

\* A content line of the form **<title>** | <company>.
IsJobLine(l) ==
    StartsWith(l, <<"*", "*">>) /\ IndexOf(l, <<"*", "*", " ", "|", " ">>, 3) # 0

\* A content line of the form "* <bullet text>".
IsBulletLine(l) == StartsWith(l, <<"*", " ">>)

\* A content line of the form *<date>* that is neither of the above.
IsDateLine(l) ==
    /\ StartsWith(l, <<"*">>) /\ IndexOf(l, <<"*">>, 2) # 0
    /\ ~IsJobLine(l) /\ ~IsBulletLine(l)

\* The bullet texts from line i up to the next job line, in source order.
RECURSIVE BulletsFrom(_, _)
BulletsFrom(ls, i) ==
    IF i > Len(ls) \/ IsJobLine(ls[i]) THEN <<>>
    ELSE (IF IsBulletLine(ls[i]) THEN <<Trim(Sub(ls[i], 3, Len(ls[i])))>> ELSE <<>>)
            \o BulletsFrom(ls, i + 1)

\* The date set by the date lines from line i up to the next job line: the last one's.
RECURSIVE DateFrom(_, _, _)
DateFrom(ls, i, date) ==
    IF i > Len(ls) \/ IsJobLine(ls[i]) THEN date
    ELSE DateFrom(ls, i + 1,
            IF IsDateLine(ls[i])
            THEN Trim(Sub(ls[i], 2, LastIndexOf(ls[i], <<"*">>, 2) - 1))
            ELSE date)

\* The index of the n-th job line of a section's content.
JobLineAt(ls, n) ==
    CHOOSE i \in 1..Len(ls) :
        /\ IsJobLine(ls[i])
        /\ Cardinality({j \in 1..i : IsJobLine(ls[j])}) = n

\* C4: in a Work Experience section every line of the form "* <bullet text>" after a
\* job line is appended, marker stripped, to that job's bullets in source order, and
\* changes no other field of the job: the date stays the one its date lines set.
C4_BulletsAppended ==
    HasDocument =>
        \A s \in SectionsTitled(WorkExperience) :
            LET sec == Document.sections[s]
                ls == sec.content
                n == Cardinality({i \in 1..Len(ls) : IsJobLine(ls[i])})
            IN  /\ Len(sec.jobs) = n
                /\ \A j \in 1..n :
                    /\ sec.jobs[j].description = BulletsFrom(ls, JobLineAt(ls, j) + 1)
                    /\ sec.jobs[j].date = DateFrom(ls, JobLineAt(ls, j) + 1, <<>>)

\* A content line of the form "* **<category>:** <items>".
HasSkillForm(l) ==
    StartsWith(l, <<"*", " ", "*", "*">>) /\ IndexOf(l, <<":", "*", "*", " ">>, 5) # 0

\* Where the ":** " of such a line may stand.
SkillSplits(l) ==
    {k \in 5..Len(l) : Sub(l, k, k + 3) = <<":", "*", "*", " ">>}

\* C5 as written: one skill line per content line of a Skills section, in order; a
\* line of the form "* **<category>:** <items>" gives that category and those items,
\* any other line gives no category and the line without its leading "* ".
C5_SkillLinesVerbatim ==
    HasDocument =>
        \A s \in SectionsTitled(Skills) :
            LET sec == Document.sections[s]
            IN  /\ Len(sec.skills) = Len(sec.content)
                /\ \A i \in 1..Len(sec.content) :
                    LET l == sec.content[i]
                        sk == sec.skills[i]
                    IN  IF HasSkillForm(l)
                        THEN \E k \in SkillSplits(l) :
                                /\ sk.category = Sub(l, 5, k - 1)
                                /\ sk.items = Sub(l, k + 4, Len(l))
                        ELSE /\ sk.category = Null
                             /\ sk.items = ReplaceLeading(l, <<"*", " ">>, <<>>)

\* C5 as amended: the same, with the category and the items each trimmed of the
\* white space around them.
C5_SkillLinesTrimmed ==
    HasDocument =>
        \A s \in SectionsTitled(Skills) :
            LET sec == Document.sections[s]
            IN  /\ Len(sec.skills) = Len(sec.content)
                /\ \A i \in 1..Len(sec.content) :
                    LET l == sec.content[i]
                        sk == sec.skills[i]
                    IN  IF HasSkillForm(l)
                        THEN \E k \in SkillSplits(l) :
                                /\ sk.category = Trim(Sub(l, 5, k - 1))
                                /\ sk.items = Trim(Sub(l, k + 4, Len(l)))
                        ELSE /\ sk.category = Null
                             /\ sk.items = Trim(ReplaceLeading(l, <<"*", " ">>, <<>>))

\* A Skills section with a categorised line, and an uncategorised bullet whose text
\* has white space before it.
C5_Witness ==
    /\ HasDocument
    /\ \E s \in SectionsTitled(Skills) :
        LET sec == Document.sections[s]
        IN  /\ \E i \in 1..Len(sec.skills) : sec.skills[i].category # Null
            /\ \E i \in 1..Len(sec.skills) :
                /\ sec.skills[i].category = Null
                /\ IsBulletLine(sec.content[i])
                /\ Len(sec.content[i]) > 2 /\ sec.content[i][3] \in WhiteSpace

\* s without the white space it starts with.
TrimStart(s) ==
    LET keep == {i \in 1..Len(s) : s[i] \notin WhiteSpace}
    IN  IF keep = {} THEN <<>> ELSE SubSeq(s, Min(keep), Len(s))

\* C9: the header name is the first non-blank line without a leading "# " when it
\* has one, and unchanged when it has none, also when "# " occurs further inside
\* the line; in both cases trimmed of the white space around it.
C9_HeaderName ==
    HasDocument =>
        LET first == SplitOn(markdownText, "\n")[Min(NonBlankIndexes(markdownText))]
        IN  Document.header.name
                = Trim(ReplaceLeading(TrimStart(first), <<"#", " ">>, <<>>))

-----------------------------------------------------------------------------
(* Claims about SummaryRenderer, under SpecSummary *)

Rendered == Len(elements) = 1

\* The class of a source line, by its trimmed text.
LineClass(l) ==
    IF StartsWith(Trim(l), <<"#", "#", "#", " ">>) THEN "h3"
    ELSE IF StartsWith(Trim(l), <<"*", " ">>) THEN "li"
    ELSE IF Trim(l) # <<>> THEN "p"
    ELSE "blank"

\* The 0-based indexes of the source lines an element was built from, in its order.
LinesOf(e) ==
    IF e.tag = "ul" THEN [i \in 1..Len(e.children) |-> e.children[i].key] ELSE <<e.key>>

RECURSIVE LinesOfAll(_)
LinesOfAll(els) == IF els = <<>> THEN <<>> ELSE LinesOf(els[1]) \o LinesOfAll(Tail(els))

\* C6: every ul is a maximal, non-empty run of consecutive bullet lines with one item
\* per line (so a blank line, a heading, a paragraph or the end of the text closes
\* it, and a blank line between bullets gives two lists), every other element comes
\* from one line of its kind, and the elements cover the non-blank lines in source
\* order.
C6_ListsAreMaximalRuns ==
    Rendered =>
        LET els == elements[1]
            ls == SplitOn(text, "\n")
            covered == LinesOfAll(els)
        IN  /\ \A i \in 1..(Len(covered) - 1) : covered[i] < covered[i + 1]
            /\ {covered[i] : i \in 1..Len(covered)}
                    = {i \in 0..(Len(ls) - 1) : LineClass(ls[i + 1]) # "blank"}
            /\ \A k \in 1..Len(els) :
                LET from == LinesOf(els[k])
                    first == from[1]
                    last == from[Len(from)]
                IN  IF els[k].tag = "ul"
                    THEN /\ Len(from) > 0
                         /\ \A j \in 1..Len(from) :
                                /\ from[j] = first + j - 1
                                /\ LineClass(ls[from[j] + 1]) = "li"
                         /\ first = 0 \/ LineClass(ls[first]) # "li"
                         /\ last = Len(ls) - 1 \/ LineClass(ls[last + 2]) # "li"
                    ELSE LineClass(ls[first + 1]) = els[k].tag

\* Two lists next to each other: a run of bullets that a blank line interrupted.
C6_Witness ==
    /\ Rendered
    /\ \E k \in 1..(Len(elements[1]) - 1) :
        /\ elements[1][k].tag = "ul" /\ Len(elements[1][k].children) > 1
        /\ elements[1][k + 1].tag = "ul"

-----------------------------------------------------------------------------
(* Claims about parseLine, under SpecLine *)

Tokenized == Len(parts) = 1

\* C7: parseLine emits no empty span: no strong, code or plain span without content.
C7_NoEmptySpan ==
    Tokenized =>
        \A i \in 1..Len(parts[1]) :
            parts[1][i].tag \in {"strong", "code", "span"} => parts[1][i].children # <<>>

\* The span a segment of a line is expected to give; an empty text gives none.
ExpectedSpan(seg) ==
    IF seg.kind = "bold" THEN <<Span("strong", seg.a, Null)>>
    ELSE IF seg.kind = "code" THEN <<Span("code", seg.a, Null)>>
    ELSE IF seg.kind = "link" THEN <<Span("a", seg.a, seg.b)>>
    ELSE IF seg.a = <<>> THEN <<>>
    ELSE <<Span("span", seg.a, Null)>>

RECURSIVE ExpectedSpans(_)
ExpectedSpans(segs) ==
    IF segs = <<>> THEN <<>> ELSE ExpectedSpan(segs[1]) \o ExpectedSpans(Tail(segs))

\* C8: a line written from well-formed bold, code and link tokens with plain text
\* between and around them gives, left to right, each token as its typed span without
\* its delimiters and each stretch of text as one plain span.
C8_TokensInOrder ==
    (Tokenized /\ Len(tokens) > 0) => parts[1] = ExpectedSpans(tokens)

\* A bold token, text, and a link token were tokenized.
C8_Witness ==
    /\ Tokenized
    /\ Len(tokens) = 5
    /\ tokens[2].kind = "bold" /\ tokens[3].a # <<>> /\ tokens[4].kind = "link"
    /\ Len(parts[1]) >= 3

-----------------------------------------------------------------------------
(* Claims about App and ResumeCreator, under Spec *)

\* C2: at most one request to the model is in flight at any time.
C2_AtMostOneRequest == Requests(calls) <= 1

\* C3, while a call is pending: the result and the error of the component that made
\* it are none.
C3_ResetWhilePending ==
    /\ Pending(calls, "app") > 0 => summary = Null /\ error = Null
    /\ Pending(calls, "rc") > 0 => resume = Null /\ rcError = Null

\* C3, step by step: a step that starts a call leaves result and error none; a step
\* that sets an error message is one in which a pending call of that component
\* ended, and it leaves the result none.
C3_Step ==
    /\ Pending(calls', "app") > Pending(calls, "app") => summary' = Null /\ error' = Null
    /\ Pending(calls', "rc") > Pending(calls, "rc") => resume' = Null /\ rcError' = Null
    /\ (error' # Null /\ error' # error) =>
            Pending(calls', "app") < Pending(calls, "app") /\ summary' = Null
    /\ (rcError' # Null /\ rcError' # rcError) =>
            Pending(calls', "rc") < Pending(calls, "rc") /\ resume' = Null

\* C3: for handleAnalyze and handleGenerateResume, result and error are reset to
\* none before the call starts and stay none while it is pending, the error message
\* is set only when the call has failed, and the result is none after a failure.
C3_ResetThenErrorOnlyOnFailure == []C3_ResetWhilePending /\ [][C3_Step]_vars

\* A resume generation has failed: its error is shown and there is no resume.
C3_Witness == rcError # Null /\ resume = Null /\ ~rcIsLoading

\* C10, step by step, with the API key missing: a step that starts a call makes no
\* request and leaves the call rejected; the step in which a rejected call ends
\* leaves the loading indicator off, the error message set and no result.
C10_Step ==
    /\ \A who \in {"app", "rc"} :
        (~apiKey /\ Pending(calls', who) > Pending(calls, who)) =>
            /\ Requests(calls') = Requests(calls)
            /\ calls'[<<who, "rejected">>] = calls[<<who, "rejected">>] + 1
    /\ calls'[<<"app", "rejected">>] < calls[<<"app", "rejected">>] =>
            /\ ~isLoading'
            /\ error' = <<"Failed to generate summary. ", ApiKeyMessage>>
            /\ summary' = Null
    /\ calls'[<<"rc", "rejected">>] < calls[<<"rc", "rejected">>] =>
            /\ ~rcIsLoading'
            /\ rcError' = <<"Failed to generate resume. ", ApiKeyMessage>>
            /\ resume' = Null

\* C10: when the API key is missing the call fails before any request is made, and
\* the action that made it ends with loading off, the error set and no result.
C10_MissingKeyFailsFast == [][C10_Step]_vars

\* An analysis has failed on the missing key, and no request was made for it.
C10_Witness ==
    /\ error = <<"Failed to generate summary. ", ApiKeyMessage>>
    /\ ~isLoading /\ summary = Null /\ Requests(calls) = 0

-----------------------------------------------------------------------------
(* Claims about the lines parseResumeMarkdown walks, under SpecResume *)

RECURSIVE TrimEach(_)
TrimEach(ls) == IF ls = <<>> THEN <<>> ELSE <<Trim(ls[1])>> \o TrimEach(Tail(ls))

\* The text with every one of its lines trimmed.
LinesTrimmed(t) == Join(TrimEach(SplitOn(t, "\n")), <<"\n">>)

\* C11: parseResumeMarkdown classifies every line by its trimmed text: the result is
\* the one it gives for the input with every line trimmed, so a line with white
\* space before "## " opens a section as the same line without it does.
C11_LinesClassifiedTrimmed ==
    Parsed => resumeData[1] = parseResumeMarkdown(LinesTrimmed(markdownText))

\* The lines parseResumeMarkdown walks after it has taken the two header lines.
BodyLines ==
    LET ls == ResumeLines(markdownText) IN Sub(ls, 3, Len(ls))

\* The lines among bl that start with "## ", by index.
HeadingIndexes(bl) ==
    {i \in 1..Len(bl) : StartsWith(bl[i], <<"#", "#", " ">>)}

\* The index of the n-th heading, hs being the indexes of the headings.
NthHeading(hs, n) ==
    CHOOSE i \in hs : Cardinality({j \in hs : j <= i}) = n

\* The lines of bl between the n-th heading and the next one (or the end).
LinesUnder(bl, hs, n) ==
    Sub(bl, NthHeading(hs, n) + 1,
        IF n = Cardinality(hs) THEN Len(bl) ELSE NthHeading(hs, n + 1) - 1)

\* The raw content lines as a processed section holds them: the array itself under
\* the two titles with a structure of their own, else the lines joined by newlines.
HeldAs(title, ls) ==
    IF title \in {WorkExperience, Skills} THEN ls ELSE Join(ls, <<"\n">>)

\* C12: after the two header lines the sections are exactly the lines starting with
\* "## ", in source order; every other line is appended, in order, to the raw content
\* of the section opened last, and the lines before the first "## " line are in no
\* section.
C12_SectionsFollowHeadings ==
    HasDocument =>
        LET bl == BodyLines
            hs == HeadingIndexes(bl)
            secs == Document.sections
        IN  /\ Len(secs) = Cardinality(hs)
            /\ \A n \in 1..Len(secs) :
                LET h == bl[NthHeading(hs, n)]
                IN  /\ secs[n].title = Trim(Sub(h, 4, Len(h)))
                    /\ secs[n].content = HeldAs(secs[n].title, LinesUnder(bl, hs, n))

\* A document of two sections, the second with a content line, whose body starts
\* with a line that is not a heading.
C12_Witness ==
    /\ HasDocument
    /\ Len(Document.sections) = 2
    /\ Len(Document.sections[2].content) > 0
    /\ 1 \notin HeadingIndexes(BodyLines)

\* The indexes of the job lines of a section's content.
JobLines(ls) == {i \in 1..Len(ls) : IsJobLine(ls[i])}

\* The title and the company a job line names: what stands between the leading "**"
\* and the last "** | ", and what follows it.
NamedBy(l) ==
    LET k == LastIndexOf(l, <<"*", "*", " ", "|", " ">>, 3)
    IN  [title |-> Trim(Sub(l, 3, k - 1)), company |-> Trim(Sub(l, k + 5, Len(l)))]

-----------------------------------------------------------------------------
(* Claims about handlePrint, under SpecPrint *)

\* handlePrint has written a document.
Printed == Len(printDocument) = 1

\* The lines of the resume that begin with "## ", by index.
ResumeHeadings ==
    LET ls == SplitOn(resume, "\n")
    IN  {i \in 1..Len(ls) : StartsWith(ls[i], <<"#", "#", " ">>)}

\* C14: the print-view conversion wraps every line of the resume that begins with
\* "## " in an h2 wrapper, however many sections the resume has: each such line is
\* in the document as <h2>, its remainder, </h2>, and there are as many h2 wrappers
\* as such lines.
C14_EveryHeadingWrapped ==
    Printed =>
        LET ls == SplitOn(resume, "\n")
            doc == printDocument[1]
        IN  /\ \A i \in ResumeHeadings :
                IndexOf(doc, <<"<h2>">> \o Sub(ls[i], 4, Len(ls[i])) \o <<"</h2>">>, 1) # 0
            /\ Cardinality({j \in 1..Len(doc) : doc[j] = "<h2>"})
                    = Cardinality(ResumeHeadings)

-----------------------------------------------------------------------------
(* Claims about the states of App and ResumeCreator, under Spec *)

\* C15: in every reachable state of App and of ResumeCreator the error message and
\* the result (summary, resume) are never both set, and while the loading indicator
\* is on neither of them is set.
C15_ErrorOrResultNotBoth ==
    /\ ~(error # Null /\ summary # Null)
    /\ ~(rcError # Null /\ resume # Null)
    /\ isLoading => error = Null /\ summary = Null
    /\ rcIsLoading => rcError = Null /\ resume = Null

\* A resume is held by a ResumeCreator that shows neither the indicator nor an error.
C15_Witness == resume # Null /\ ~rcIsLoading /\ rcError = Null /\ ~isLoading

\* C16: in every reachable state of App the view is 'summary' or 'resume' only when
\* a summary is stored, and whenever the view is 'form' no summary is stored.
C16_ViewMatchesSummary ==
    /\ view \in {"summary", "resume"} => summary # Null
    /\ view = "form" => summary = Null

\* An analysis has failed: the App is back in the form view with the error message
\* and no summary.
C16_Witness == view = "form" /\ error # Null /\ summary = Null /\ profileText # <<>>

====
